---- MODULE Spec2Model ----
(***************************************************************************)
(* Device tooling of the kata runtime:                                     *)
(*   - katautils.VerifyContainerID   (identifier validator)                *)
(*   - katautils.GetDeviceInfoByPath / DeviceFromPath (device classifier)  *)
(*   - the "device list|attach|detach" sub-commands (sandbox device        *)
(*     client), which read the flag-bound package variables sandboxID and  *)
(*     devPath and talk to the shim through shimclient.                    *)
(*                                                                         *)
(* Strings that the code inspects character by character (identifiers,    *)
(* device paths handed to json.Marshal, request bodies) are sequences of   *)
(* code points.  Unsigned machine words that the code masks and shifts     *)
(* (st_mode, st_rdev, major, minor) are sets of bit positions, so that     *)
(* a 64-bit value keeps its full width.                                    *)
(***************************************************************************)
EXTENDS Integers, Sequences, FiniteSets, TLC

VARIABLES
    id,         \* validator run: the identifier under test
    verr,       \* validator run: result of VerifyContainerID(id), or Pending
    fs,         \* classifier run: the host file system, path -> node
    cret,       \* classifier run: outcome of the last classifier call
    sandboxID,  \* package variable bound to --sandbox-id
    devPath,    \* package variable bound to --device-path
    pc,         \* per invocation: position in cli.Command.Run / Action
    args,       \* per invocation: the command line it was given
    encoded,    \* per invocation: local `encoded` of attach/detach
    verified,   \* per invocation: identifiers VerifyContainerID accepted
    ret,        \* per invocation: error returned to the caller
    stdout,     \* per invocation: what fmt.Println wrote
    net         \* requests that reached the sandbox control endpoint

vars == <<id, verr, fs, cret, sandboxID, devPath, pc, args, encoded,
          verified, ret, stdout, net>>

validatorVars == <<id, verr>>
classifierVars == <<fs, cret>>
clientVars == <<sandboxID, devPath, pc, args, encoded, verified, ret, stdout, net>>

(***************************************************************************)
(* Identifier validator                                                    *)
(***************************************************************************)

\* Longest identifier explored by the validator run.
MaxIdLen == 3

\* Code points: '\n' '-' '.' '/' '0' 'Z' '[' '_' 'a'
IdChars == {10, 45, 46, 47, 48, 90, 91, 95, 97}

\* [a-zA-Z0-9]
ClassFirst == (97..122) \cup (65..90) \cup (48..57)

\* [a-zA-Z0-9_.-]
ClassRest == ClassFirst \cup {95, 46, 45}

\* ^[a-zA-Z0-9][a-zA-Z0-9_.-]+$ as the automaton the regexp engine runs:
\* q = 0 before the first character, 1 after it, 2 after at least one
\* character of the repeated class; `$` (no multi-line flag) accepts only at
\* the end of the text.
RECURSIVE MatchFromStar(_, _, _)
MatchFromStar(s, i, q) ==
    IF i > Len(s) THEN q \in {1, 2}
    ELSE IF q = 0 THEN s[i] \in ClassFirst /\ MatchFromStar(s, i + 1, 1)
    ELSE s[i] \in ClassRest /\ MatchFromStar(s, i + 1, 2)

RECURSIVE MatchFrom(_, _, _)
MatchFrom(s, i, q) ==
    IF i > Len(s) THEN q = 2
    ELSE IF q = 0 THEN s[i] \in ClassFirst /\ MatchFrom(s, i + 1, 1)
    ELSE s[i] \in ClassRest /\ MatchFrom(s, i + 1, 2)

validCIDRegex(s) == MatchFrom(s, 1, 0)

NoErr == [kind |-> "nil"]
ErrBlankID == [kind |-> "errorString", s |-> "ID cannot be blank"]
ErrInvalidID == [kind |-> "errorString", s |-> "invalid container/sandbox ID"]

VerifyContainerID(s) ==
    IF s = <<>> THEN ErrBlankID
    ELSE IF ~validCIDRegex(s) THEN ErrInvalidID
    ELSE NoErr

Pending == [kind |-> "pending"]

RECURSIVE StringsUpTo(_)
StringsUpTo(n) ==
    IF n = 0 THEN {<<>>}
    ELSE LET shorter == StringsUpTo(n - 1)
         IN shorter \cup {Append(s, c) : s \in {t \in shorter : Len(t) = n - 1}, c \in IdChars}

(***************************************************************************)
(* Device classifier                                                       *)
(***************************************************************************)

\* The set of bit positions that are 1 in the (small) number n.
Bits(n) == {i \in 0..30 : (n \div (2 ^ i)) % 2 = 1}

\* Word operations on sets of bit positions.
BitAnd(a, b) == a \cap b
BitAndNot(a, b) == a \ b
BitOr(a, b) == a \cup b
Shr(a, k) == {b - k : b \in {x \in a : x >= k}}
Shl(a, k) == {b + k : b \in {x \in a : x + k <= 63}}
Uint32(a) == a \cap (0..31)

\* unix.S_IF* (octal 0170000, 060000, 020000, 010000, 040000, 0100000,
\* 0120000, 0140000)
S_IFMT == Bits(61440)
S_IFBLK == Bits(24576)
S_IFCHR == Bits(8192)
S_IFIFO == Bits(4096)
S_IFDIR == Bits(16384)
S_IFREG == Bits(32768)
S_IFLNK == Bits(40960)
S_IFSOCK == Bits(49152)

blockDevice == "b"
charDevice == "c"
fifoDevice == "p"

\* Paths that may name a node; the empty path never does.
FsPaths == {"/dev/a", "/dev/b"}
CallPaths == FsPaths \cup {""}

\* A node as the kernel keeps it: its type, permission bits (with setuid,
\* setgid and sticky), device number, owner, and a symlink's target.
Absent ==
    [exists |-> FALSE, kind |-> "none", perm |-> 0, rdev |-> {}, uid |-> 0, gid |-> 0,
     target |-> ""]

Node(kind, perm, rdev, uid, gid) ==
    [exists |-> TRUE, kind |-> kind, perm |-> perm, rdev |-> rdev, uid |-> uid, gid |-> gid,
     target |-> ""]

Symlink(t) ==
    [exists |-> TRUE, kind |-> "lnk", perm |-> 511, rdev |-> {}, uid |-> 0, gid |-> 0,
     target |-> t]

\* Sample nodes: a regular file 0644, a sticky directory 01777, a setuid
\* regular file 04755, a socket 0755, a fifo 0644, block 8:1 (0x801) 0660,
\* a setuid+setgid block node whose device number uses the high major and
\* minor bits, the character device 1:3 (0x103) 0666, and a character node
\* with every major bit set.
SampleNodes ==
    { Node("reg", 420, {}, 1000, 1000),
      Node("dir", 1023, {}, 0, 0),
      Node("reg", 2541, {}, 0, 0),
      Node("sock", 493, {}, 0, 0),
      Node("fifo", 420, {}, 1000, 100),
      Node("blk", 432, {0, 11}, 0, 6),
      Node("blk", 3504, {3, 20, 43, 44, 63}, 0, 6),
      Node("chr", 438, {0, 1, 8}, 0, 0),
      Node("chr", 384, (8..19) \cup (44..63), 1000, 5) }

NodeChoices == {Absent} \cup SampleNodes \cup {Symlink(t) : t \in FsPaths}

\* st_mode as stat(2) and lstat(2) report it: type bits and permission bits.
TypeBits(kind) ==
    CASE kind = "reg" -> S_IFREG
      [] kind = "dir" -> S_IFDIR
      [] kind = "blk" -> S_IFBLK
      [] kind = "chr" -> S_IFCHR
      [] kind = "fifo" -> S_IFIFO
      [] kind = "sock" -> S_IFSOCK
      [] kind = "lnk" -> S_IFLNK
      [] OTHER -> {}

ENOENT == [kind |-> "Errno", errno |-> "ENOENT"]
ELOOP == [kind |-> "Errno", errno |-> "ELOOP"]

StatT(n) == [Mode |-> BitOr(TypeBits(n.kind), Bits(n.perm)), Rdev |-> n.rdev, Uid |-> n.uid, Gid |-> n.gid]

\* unix.Lstat: the node itself, never a symlink's target.
Lstat(fsys, path) ==
    IF path \in DOMAIN fsys /\ fsys[path].exists
    THEN [err |-> NoErr, st |-> StatT(fsys[path])]
    ELSE [err |-> ENOENT, st |-> StatT(Absent)]

\* stat(2): follows symbolic links.
RECURSIVE StatFollow(_, _, _)
StatFollow(fsys, path, seen) ==
    IF ~(path \in DOMAIN fsys /\ fsys[path].exists) THEN [err |-> ENOENT, st |-> StatT(Absent)]
    ELSE IF fsys[path].kind # "lnk" THEN [err |-> NoErr, st |-> StatT(fsys[path])]
    ELSE IF fsys[path].target \in seen \cup {path} THEN [err |-> ELOOP, st |-> StatT(Absent)]
    ELSE StatFollow(fsys, fsys[path].target, seen \cup {path})

\* os.Stat: a failure is an *os.PathError carrying the operation and the name.
OsStat(fsys, name) ==
    LET r == StatFollow(fsys, name, {})
    IN IF r.err # NoErr
       THEN [err |-> [kind |-> "PathError", Op |-> "stat", Path |-> name, Err |-> r.err],
             st |-> r.st]
       ELSE r

\* os.FileInfo.IsDir
IsDir(st) == BitAnd(st.Mode, S_IFMT) = S_IFDIR

\* Variant: the 8-bit minor / 12-bit major layout, (dev >> 8) & 0xfff.
MajorLow12(dev) == Uint32(Shr(BitAnd(dev, 8..19), 8))

\* unix.Major / unix.Minor (Linux): uint64 -> uint32
Major(dev) ==
    BitOr(Uint32(Shr(BitAnd(dev, 8..19), 8)), Uint32(Shr(BitAnd(dev, 44..63), 32)))

Minor(dev) ==
    BitOr(Uint32(Shr(BitAnd(dev, 0..7), 0)), Uint32(Shr(BitAnd(dev, 20..43), 12)))

\* int64(x) of a uint32 x: zero extension.
Int64OfUint32(x) == Uint32(x)

\* The zero value of config.DeviceInfo.
ZeroDeviceInfo ==
    [ContainerPath |-> "", DevType |-> "", Major |-> {}, Minor |-> {},
     UID |-> 0, GID |-> 0, FileMode |-> {}]

ErrNotDeviceNode == [kind |-> "errorString", s |-> "not a device node"]

\* DeviceFromPath after its lstat succeeded or failed with l.
FromStat(l, path) ==
    LET stat == l.st
        devNumber == stat.Rdev
        major == Major(devNumber)
        minor == Minor(devNumber)
        mode == stat.Mode
        t == BitAnd(mode, S_IFMT)
        devType == IF t = S_IFBLK THEN blockDevice
                   ELSE IF t = S_IFCHR THEN charDevice
                   ELSE IF t = S_IFIFO THEN fifoDevice
                   ELSE ""
        fm == BitAndNot(mode, S_IFMT)
    IN IF l.err # NoErr THEN [dev |-> <<>>, err |-> l.err, calls |-> <<"lstat">>]
       ELSE IF devType = "" THEN [dev |-> <<>>, err |-> ErrNotDeviceNode, calls |-> <<"lstat">>]
       ELSE [dev |-> << [ContainerPath |-> path, DevType |-> devType,
                         Major |-> Int64OfUint32(major), Minor |-> Int64OfUint32(minor),
                         UID |-> stat.Uid, GID |-> stat.Gid, FileMode |-> fm] >>,
             err |-> NoErr, calls |-> <<"lstat">>]

\* Variant: the node is examined with stat(2), which follows symlinks.
DeviceFromPathFollow(fsys, path) == FromStat(StatFollow(fsys, path, {}), path)

DeviceFromPath(fsys, path) == FromStat(Lstat(fsys, path), path)

\* fmt.Errorf("error stating device path: %w", err)
WrapStatErr(err) == [kind |-> "wrapError", msg |-> "error stating device path: ", Err |-> err]

\* Variant: the directory test is left out.
GetDeviceInfoByPathNoDirTest(fsys, path) ==
    LET s == OsStat(fsys, path)
        d == DeviceFromPath(fsys, path)
    IN IF s.err # NoErr
       THEN [dev |-> <<ZeroDeviceInfo>>, err |-> WrapStatErr(s.err), calls |-> <<"stat">>]
       ELSE IF d.err # NoErr
       THEN [dev |-> <<ZeroDeviceInfo>>, err |-> d.err, calls |-> <<"stat">> \o d.calls]
       ELSE [dev |-> <<d.dev[1]>>, err |-> NoErr, calls |-> <<"stat">> \o d.calls]

\* Variant: a failed stat is not reported; the node classifier's own error is.
GetDeviceInfoByPathBareErr(fsys, path) ==
    LET s == OsStat(fsys, path)
        d == DeviceFromPath(fsys, path)
    IN IF ~(s.err # NoErr) /\ IsDir(s.st)
       THEN [dev |-> <<ZeroDeviceInfo>>, err |-> NoErr, calls |-> <<"stat">>]
       ELSE IF d.err # NoErr
       THEN [dev |-> <<ZeroDeviceInfo>>, err |-> d.err, calls |-> <<"stat">> \o d.calls]
       ELSE [dev |-> <<d.dev[1]>>, err |-> NoErr, calls |-> <<"stat">> \o d.calls]

\* Both stats see the same file system fsys.
GetDeviceInfoByPath(fsys, path) ==
    LET s == OsStat(fsys, path)
        d == DeviceFromPath(fsys, path)
    IN IF s.err # NoErr
       THEN [dev |-> <<ZeroDeviceInfo>>, err |-> WrapStatErr(s.err), calls |-> <<"stat">>]
       ELSE IF ~IsDir(s.st)
       THEN IF d.err # NoErr
            THEN [dev |-> <<ZeroDeviceInfo>>, err |-> d.err, calls |-> <<"stat">> \o d.calls]
            ELSE [dev |-> <<d.dev[1]>>, err |-> NoErr, calls |-> <<"stat">> \o d.calls]
       ELSE [dev |-> <<ZeroDeviceInfo>>, err |-> NoErr, calls |-> <<"stat">>]

\* error.Error(): the text as the list of its parts.
RECURSIVE ErrorText(_)
ErrorText(e) ==
    IF e.kind = "Errno"
    THEN IF e.errno = "ENOENT" THEN <<"no such file or directory">>
         ELSE <<"too many levels of symbolic links">>
    ELSE IF e.kind = "PathError" THEN <<e.Op, " ", e.Path, ": ">> \o ErrorText(e.Err)
    ELSE IF e.kind = "wrapError" THEN <<e.msg>> \o ErrorText(e.Err)
    ELSE IF e.kind = "errorString" THEN <<e.s>>
    ELSE <<>>

NoCall == [op |-> "none", path |-> "", dev |-> <<>>, err |-> NoErr, calls |-> <<>>]

(***************************************************************************)
(* Sandbox device client                                                   *)
(***************************************************************************)

Procs == {1, 2}

Cmds == {"list", "attach", "detach"}

\* A command-line flag: given with a value, or not given.
Flag(v) == [set |-> TRUE, val |-> v]
NoFlag == [set |-> FALSE, val |-> <<>>]

\* "", "a", "ab", "a-1", "-a", "a/"
SandboxIdArgs == {<<>>, <<97>>, <<97, 98>>, <<97, 45, 49>>, <<45, 97>>, <<97, 47>>}

\* "", "/dev/sdb", `/"\` and "/<\n"
DevPathArgs == {<<>>, <<47, 100, 101, 118, 47, 115, 100, 98>>, <<47, 34, 92>>, <<47, 60, 10>>}

\* What the two overlapping invocations are given: "ab" with "/dev/sdb",
\* and "a-1" with `/"\`.
ConcSandboxId(i) == IF i = 1 THEN <<97, 98>> ELSE <<97, 45, 49>>
ConcDevPath(i) == IF i = 1 THEN <<47, 100, 101, 118, 47, 115, 100, 98>> ELSE <<47, 34, 92>>

\* package main: defaultTimeout, in seconds
defaultTimeout == 3

\* containerdshim.DeviceUrl
DeviceUrl == "/device"

\* containerdshim.DeviceRequest
DeviceRequest(p) == [DevicePath |-> p]

\* `{"device_path":"` and `"}`
JsonObjectOpen == <<123, 34, 100, 101, 118, 105, 99, 101, 95, 112, 97, 116, 104, 34, 58, 34>>
JsonObjectClose == <<34, 125>>

HexDigit(n) == IF n < 10 THEN 48 + n ELSE 87 + n

\* encoding/json: one byte of a string, HTML escaping on.
JsonEscape(c) ==
    IF c \in {34, 92} THEN <<92, c>>
    ELSE IF c = 10 THEN <<92, 110>>
    ELSE IF c = 13 THEN <<92, 114>>
    ELSE IF c = 9 THEN <<92, 116>>
    ELSE IF c < 32 \/ c \in {38, 60, 62} THEN <<92, 117, 48, 48, HexDigit(c \div 16), HexDigit(c % 16)>>
    ELSE <<c>>

RECURSIVE JsonString(_)
JsonString(str) ==
    IF str = <<>> THEN <<>> ELSE JsonEscape(Head(str)) \o JsonString(Tail(str))

\* json.Marshal(containerdshim.DeviceRequest{...})
Marshal(req) ==
    [bytes |-> JsonObjectOpen \o JsonString(req.DevicePath) \o JsonObjectClose, err |-> NoErr]

Outcomes == {"200", "500", "timeout"}

\* What the transport reports for a round trip that ended with outcome o.
TransportErr(o) == IF o = "200" THEN NoErr ELSE [kind |-> "RemoteCallFailure", detail |-> o]

Listing == "listing"

\* shimclient.DoGet / DoPut / DoDelete: one round trip each.
DoGet(i, sid, timeout, url, o) ==
    [reqs |-> << [inv |-> i, verb |-> "GET", sid |-> sid, url |-> url, timeout |-> timeout,
                  hasBody |-> FALSE, ctype |-> "", body |-> <<>>, outcome |-> o] >>,
     body |-> IF o = "200" THEN <<Listing>> ELSE <<>>,
     err |-> TransportErr(o)]

DoPut(i, sid, timeout, url, ctype, payload, o) ==
    [reqs |-> << [inv |-> i, verb |-> "PUT", sid |-> sid, url |-> url, timeout |-> timeout,
                  hasBody |-> TRUE, ctype |-> ctype, body |-> payload, outcome |-> o] >>,
     err |-> TransportErr(o)]

DoDelete(i, sid, timeout, url, ctype, payload, o) ==
    [reqs |-> << [inv |-> i, verb |-> "DELETE", sid |-> sid, url |-> url, timeout |-> timeout,
                  hasBody |-> TRUE, ctype |-> ctype, body |-> payload, outcome |-> o] >>,
     err |-> TransportErr(o)]

ErrRequiredFlag == [kind |-> "requiredFlagsErr", flag |-> "sandbox-id"]

NoArgs == [cmd |-> "", sid |-> NoFlag, dev |-> NoFlag]

\* cli.Command.Run, first half: the flag set is built and every flag with a
\* Destination stores its default value ("" for both flags) there.
Begin(i, cmd, sid, dev) ==
    /\ pc[i] = "idle"
    /\ args' = [args EXCEPT ![i] = [cmd |-> cmd, sid |-> sid, dev |-> dev]]
    /\ sandboxID' = <<>>
    /\ devPath' = <<>>
    /\ pc' = [pc EXCEPT ![i] = "applied"]
    /\ UNCHANGED <<encoded, verified, ret, stdout, net>>
    /\ UNCHANGED <<validatorVars, classifierVars>>

\* cli.Command.Run, second half: the flags given on the command line are
\* stored through their Destination; a missing Required flag ends the run
\* before the Action.
Parse(i) ==
    /\ pc[i] = "applied"
    /\ sandboxID' = IF args[i].sid.set THEN args[i].sid.val ELSE sandboxID
    /\ devPath' = IF args[i].dev.set THEN args[i].dev.val ELSE devPath
    /\ IF args[i].sid.set
       THEN /\ pc' = [pc EXCEPT ![i] = "parsed"]
            /\ ret' = ret
       ELSE /\ pc' = [pc EXCEPT ![i] = "done"]
            /\ ret' = [ret EXCEPT ![i] = ErrRequiredFlag]
    /\ UNCHANGED <<args, encoded, verified, stdout, net>>
    /\ UNCHANGED <<validatorVars, classifierVars>>

\* Variant: the validation error is not returned.
ActionVerifyIgnored(i) ==
    /\ pc[i] = "parsed"
    /\ ret' = ret
    /\ pc' = [pc EXCEPT ![i] = IF args[i].cmd = "list" THEN "call" ELSE "marshal"]
    /\ verified' = [verified EXCEPT ![i] =
                       IF VerifyContainerID(sandboxID) = NoErr THEN Append(@, sandboxID) ELSE @]
    /\ UNCHANGED <<sandboxID, devPath, args, encoded, stdout, net>>
    /\ UNCHANGED <<validatorVars, classifierVars>>

\* Action: katautils.VerifyContainerID(sandboxID)
ActionVerify(i) ==
    /\ pc[i] = "parsed"
    /\ IF VerifyContainerID(sandboxID) # NoErr
       THEN /\ ret' = [ret EXCEPT ![i] = VerifyContainerID(sandboxID)]
            /\ pc' = [pc EXCEPT ![i] = "done"]
            /\ verified' = verified
       ELSE /\ ret' = ret
            /\ pc' = [pc EXCEPT ![i] = IF args[i].cmd = "list" THEN "call" ELSE "marshal"]
            /\ verified' = [verified EXCEPT ![i] = Append(@, sandboxID)]
    /\ UNCHANGED <<sandboxID, devPath, args, encoded, stdout, net>>
    /\ UNCHANGED <<validatorVars, classifierVars>>

\* Action of attach and detach: resizeReq := DeviceRequest{DevicePath: devPath};
\* encoded, err := json.Marshal(resizeReq)
ActionMarshal(i) ==
    /\ pc[i] = "marshal"
    /\ LET m == Marshal(DeviceRequest(devPath))
       IN IF m.err # NoErr
          THEN /\ ret' = [ret EXCEPT ![i] = m.err]
               /\ pc' = [pc EXCEPT ![i] = "done"]
               /\ encoded' = encoded
          ELSE /\ ret' = ret
               /\ pc' = [pc EXCEPT ![i] = "call"]
               /\ encoded' = [encoded EXCEPT ![i] = m.bytes]
    /\ UNCHANGED <<sandboxID, devPath, args, verified, stdout, net>>
    /\ UNCHANGED <<validatorVars, classifierVars>>

\* Variant: a failed remote call is tried once more.
ActionCallRetry(i, o) ==
    /\ pc[i] = "call"
    /\ LET r == IF args[i].cmd = "list"
                THEN DoGet(i, sandboxID, defaultTimeout, DeviceUrl, o)
                ELSE IF args[i].cmd = "attach"
                THEN DoPut(i, sandboxID, defaultTimeout * 10, DeviceUrl,
                           "application/json", encoded[i], o)
                ELSE DoDelete(i, sandboxID, defaultTimeout * 10, DeviceUrl,
                              "application/json", encoded[i], o)
       IN /\ net' = IF r.err = NoErr THEN net \o r.reqs ELSE net \o r.reqs \o r.reqs
          /\ ret' = [ret EXCEPT ![i] = r.err]
          /\ stdout' = [stdout EXCEPT ![i] =
                           IF args[i].cmd = "list" /\ r.err = NoErr THEN r.body ELSE @]
    /\ pc' = [pc EXCEPT ![i] = "done"]
    /\ UNCHANGED <<sandboxID, devPath, args, encoded, verified>>
    /\ UNCHANGED <<validatorVars, classifierVars>>

\* Variant: detach calls with the read timeout.
ActionCallShortDetach(i, o) ==
    /\ pc[i] = "call"
    /\ LET r == IF args[i].cmd = "list"
                THEN DoGet(i, sandboxID, defaultTimeout, DeviceUrl, o)
                ELSE IF args[i].cmd = "attach"
                THEN DoPut(i, sandboxID, defaultTimeout * 10, DeviceUrl,
                           "application/json", encoded[i], o)
                ELSE DoDelete(i, sandboxID, defaultTimeout, DeviceUrl,
                              "application/json", encoded[i], o)
       IN /\ net' = net \o r.reqs
          /\ ret' = [ret EXCEPT ![i] = r.err]
          /\ stdout' = [stdout EXCEPT ![i] =
                           IF args[i].cmd = "list" /\ r.err = NoErr THEN r.body ELSE @]
    /\ pc' = [pc EXCEPT ![i] = "done"]
    /\ UNCHANGED <<sandboxID, devPath, args, encoded, verified>>
    /\ UNCHANGED <<validatorVars, classifierVars>>

\* Action, the remote call and the return: DoGet for list (the body is
\* printed), DoPut for attach, DoDelete for detach.
ActionCall(i, o) ==
    /\ pc[i] = "call"
    /\ LET r == IF args[i].cmd = "list"
                THEN DoGet(i, sandboxID, defaultTimeout, DeviceUrl, o)
                ELSE IF args[i].cmd = "attach"
                THEN DoPut(i, sandboxID, defaultTimeout * 10, DeviceUrl,
                           "application/json", encoded[i], o)
                ELSE DoDelete(i, sandboxID, defaultTimeout * 10, DeviceUrl,
                              "application/json", encoded[i], o)
       IN /\ net' = net \o r.reqs
          /\ ret' = [ret EXCEPT ![i] = r.err]
          /\ stdout' = [stdout EXCEPT ![i] =
                           IF args[i].cmd = "list" /\ r.err = NoErr THEN r.body ELSE @]
    /\ pc' = [pc EXCEPT ![i] = "done"]
    /\ UNCHANGED <<sandboxID, devPath, args, encoded, verified>>
    /\ UNCHANGED <<validatorVars, classifierVars>>

\* The invocation is over; the next command line starts from a clean
\* invocation record.  The package variables keep their values.
Exit(i) ==
    /\ pc[i] = "done"
    /\ pc' = [pc EXCEPT ![i] = "idle"]
    /\ args' = [args EXCEPT ![i] = NoArgs]
    /\ encoded' = [encoded EXCEPT ![i] = <<>>]
    /\ verified' = [verified EXCEPT ![i] = <<>>]
    /\ ret' = [ret EXCEPT ![i] = NoErr]
    /\ stdout' = [stdout EXCEPT ![i] = <<>>]
    /\ net' = SelectSeq(net, LAMBDA r : r.inv # i)
    /\ UNCHANGED <<sandboxID, devPath>>
    /\ UNCHANGED <<validatorVars, classifierVars>>

(***************************************************************************)
(* Runs                                                                    *)
(***************************************************************************)

ValidatorIdle == id = <<>> /\ verr = Pending

ClassifierIdle == fs = [p \in FsPaths |-> Absent] /\ cret = NoCall

ClientIdle ==
    /\ sandboxID = <<>>
    /\ devPath = <<>>
    /\ pc = [i \in Procs |-> "idle"]
    /\ args = [i \in Procs |-> NoArgs]
    /\ encoded = [i \in Procs |-> <<>>]
    /\ verified = [i \in Procs |-> <<>>]
    /\ ret = [i \in Procs |-> NoErr]
    /\ stdout = [i \in Procs |-> <<>>]
    /\ net = <<>>

\* The command-line tool: one invocation at a time, each run to its end.
Init == ValidatorIdle /\ ClassifierIdle /\ ClientIdle

Run ==
    \E cmd \in Cmds, sid \in {NoFlag} \cup {Flag(v) : v \in SandboxIdArgs},
       dev \in {NoFlag} \cup {Flag(v) : v \in DevPathArgs} : Begin(1, cmd, sid, dev)

Call == \E o \in Outcomes : ActionCall(1, o)

Next ==
    \/ Run
    \/ Parse(1)
    \/ ActionVerify(1)
    \/ ActionMarshal(1)
    \/ Call
    \/ Exit(1)

Spec == Init /\ [][Next]_vars

\* Two invocations in one process, overlapping in any order.  sandboxID and
\* devPath are read and written without synchronisation; each read and
\* each write is taken as one step, so a read returns a value some
\* invocation stored whole.
RunConc == \E i \in Procs, cmd \in Cmds : Begin(i, cmd, Flag(ConcSandboxId(i)), Flag(ConcDevPath(i)))

ParseConc == \E i \in Procs : Parse(i)

VerifyConc == \E i \in Procs : ActionVerify(i)

MarshalConc == \E i \in Procs : ActionMarshal(i)

CallConc == \E i \in Procs, o \in Outcomes : ActionCall(i, o)

NextConc ==
    \/ RunConc
    \/ ParseConc
    \/ VerifyConc
    \/ MarshalConc
    \/ CallConc

SpecConc == Init /\ [][NextConc]_vars

\* The validator applied to every identifier up to MaxIdLen.
InitValidator == id \in StringsUpTo(MaxIdLen) /\ verr = Pending /\ ClassifierIdle /\ ClientIdle

Verify ==
    /\ verr = Pending
    /\ verr' = VerifyContainerID(id)
    /\ UNCHANGED <<id, classifierVars, clientVars>>

NextValidator == Verify

SpecValidator == InitValidator /\ [][NextValidator]_vars

\* The classifier applied to every path of every sample file system.
InitClassifier ==
    /\ fs \in [FsPaths -> NodeChoices]
    /\ cret = NoCall
    /\ ValidatorIdle
    /\ ClientIdle

CallGetDeviceInfoByPath ==
    \E p \in CallPaths :
        /\ cret' = [op |-> "GetDeviceInfoByPath", path |-> p] @@ GetDeviceInfoByPath(fs, p)
        /\ UNCHANGED <<fs, validatorVars, clientVars>>

CallDeviceFromPath ==
    \E p \in CallPaths :
        /\ cret' = [op |-> "DeviceFromPath", path |-> p] @@ DeviceFromPath(fs, p)
        /\ UNCHANGED <<fs, validatorVars, clientVars>>

NextClassifier ==
    \/ CallGetDeviceInfoByPath
    \/ CallDeviceFromPath

SpecClassifier == InitClassifier /\ [][NextClassifier]_vars

(***************************************************************************)
(* Properties of the identifier validator                                  *)
(***************************************************************************)

\* The characters of the explored identifiers that are letters or digits,
\* and those an identifier may continue with.
AlnumChars == {48, 49, 90, 97, 98}
TailChars == AlnumChars \cup {45, 46, 95}

WellFormedId(s) ==
    /\ Len(s) >= 2
    /\ s[1] \in AlnumChars
    /\ \A k \in 2..Len(s) : s[k] \in TailChars

\* C2: VerifyContainerID(id) succeeds exactly when the whole of id is one
\* letter or digit followed by one or more letters, digits, '_', '.' or
\* '-'; so it fails for the empty string, for every one-character string,
\* for a first character that is no letter or digit, and for any character
\* outside the set anywhere (a trailing newline included).
C2_VerifyIffWellFormed ==
    verr # Pending =>
        /\ (verr = NoErr) <=> WellFormedId(id)
        /\ Len(id) <= 1 => verr # NoErr
        /\ (id # <<>> /\ id[1] \notin AlnumChars) => verr # NoErr
        /\ (\E k \in 1..Len(id) : id[k] \notin TailChars) => verr # NoErr

\* An identifier of the longest explored kind was accepted.
C2_Witness == verr = NoErr /\ id = <<97, 45, 46>>

(***************************************************************************)
(* Properties of the device classifier                                     *)
(***************************************************************************)

\* The node a path names, and the type of node it leads to through symlinks
\* ("none" when it leads nowhere).
NodeAt(p) == IF p \in FsPaths THEN fs[p] ELSE Absent

RECURSIVE LeadsTo(_, _)
LeadsTo(p, fuel) ==
    IF fuel = 0 \/ ~NodeAt(p).exists THEN "none"
    ELSE IF NodeAt(p).kind = "lnk" THEN LeadsTo(NodeAt(p).target, fuel - 1)
    ELSE NodeAt(p).kind

ResolvedKind(p) == LeadsTo(p, Cardinality(FsPaths))

DeviceKinds == {"blk", "chr", "fifo"}

TagOf(kind) == IF kind = "blk" THEN "b" ELSE IF kind = "chr" THEN "c" ELSE "p"

\* C5: DeviceFromPath tags a block, character or fifo node "b", "c" or
\* "p"; for every other node (regular file, directory, socket, symlink,
\* whatever the symlink points to) it returns "not a device node" and no
\* descriptor.  A descriptor that is not the empty one always has one of
\* the three tags, and GetDeviceInfoByPath on a regular file fails with
\* the same error.
C5_DeviceTypeByNodeType ==
    /\ (cret.op = "DeviceFromPath" /\ NodeAt(cret.path).exists) =>
          IF NodeAt(cret.path).kind \in DeviceKinds
          THEN /\ cret.err = NoErr
               /\ Len(cret.dev) = 1
               /\ cret.dev[1].DevType = TagOf(NodeAt(cret.path).kind)
          ELSE /\ cret.err = ErrNotDeviceNode
               /\ cret.dev = <<>>
    /\ \A k \in 1..Len(cret.dev) :
          cret.dev[k] # ZeroDeviceInfo => cret.dev[k].DevType \in {"b", "c", "p"}
    /\ (cret.op = "GetDeviceInfoByPath" /\ NodeAt(cret.path).kind = "reg") =>
          /\ cret.err = ErrNotDeviceNode
          /\ cret.dev = <<ZeroDeviceInfo>>

\* DeviceFromPath was given a symlink to a block node and refused it.
C5_Witness ==
    /\ cret.op = "DeviceFromPath"
    /\ NodeAt(cret.path).kind = "lnk"
    /\ ResolvedKind(cret.path) = "blk"
    /\ cret.err = ErrNotDeviceNode

\* C6: for a path that leads to a directory GetDeviceInfoByPath returns
\* the empty descriptor and no error, and the node classifier is not run;
\* for a path that leads to anything else its error and descriptor are
\* those of DeviceFromPath on the same path.
C6_DirectoryIsEmptyElseDelegates ==
    cret.op = "GetDeviceInfoByPath" =>
        /\ ResolvedKind(cret.path) = "dir" =>
              /\ cret.dev = <<ZeroDeviceInfo>>
              /\ cret.err = NoErr
              /\ \A k \in 1..Len(cret.calls) : cret.calls[k] # "lstat"
        /\ ResolvedKind(cret.path) \notin {"dir", "none"} =>
              /\ cret.err = DeviceFromPath(fs, cret.path).err
              /\ cret.dev = IF DeviceFromPath(fs, cret.path).dev = <<>>
                            THEN <<ZeroDeviceInfo>>
                            ELSE DeviceFromPath(fs, cret.path).dev
              /\ cret.calls = <<"stat", "lstat">>

\* GetDeviceInfoByPath was given a symlink to a directory.
C6_Witness ==
    /\ cret.op = "GetDeviceInfoByPath"
    /\ NodeAt(cret.path).kind = "lnk"
    /\ ResolvedKind(cret.path) = "dir"
    /\ cret.dev = <<ZeroDeviceInfo>>

\* The text of an error contains the path.
Mentions(e, p) == p = "" \/ \E k \in 1..Len(ErrorText(e)) : ErrorText(e)[k] = p

\* The errors an error wraps, itself included.
RECURSIVE Chain(_)
Chain(e) ==
    IF e.kind \in {"PathError", "wrapError"} THEN {e} \cup Chain(e.Err) ELSE {e}

NoDescriptor == cret.dev = <<>> \/ cret.dev = <<ZeroDeviceInfo>>

\* C7 as stated: for a path that does not exist, GetDeviceInfoByPath and
\* DeviceFromPath both return an error whose text contains the path and
\* that wraps the underlying I/O error, and no descriptor.
C7_BothErrorsMentionPath ==
    (cret.op # "none" /\ ~NodeAt(cret.path).exists) =>
        /\ cret.err # NoErr
        /\ NoDescriptor
        /\ ENOENT \in Chain(cret.err)
        /\ Mentions(cret.err, cret.path)

\* C7 amended: for a path that does not exist, both return an error and no
\* descriptor; the error of GetDeviceInfoByPath wraps the underlying I/O
\* error and its text contains the path; the error of DeviceFromPath is the
\* underlying I/O error itself, whose text is the errno's message alone.
C7_OnlyGetDeviceInfoByPathMentionsPath ==
    (cret.op # "none" /\ ~NodeAt(cret.path).exists) =>
        /\ cret.err # NoErr
        /\ NoDescriptor
        /\ ENOENT \in Chain(cret.err)
        /\ cret.op = "GetDeviceInfoByPath" =>
              /\ cret.err # ENOENT
              /\ Mentions(cret.err, cret.path)
        /\ cret.op = "DeviceFromPath" =>
              /\ cret.err = ENOENT
              /\ ErrorText(cret.err) = <<"no such file or directory">>

\* GetDeviceInfoByPath was given a path with no node.
C7_Witness ==
    /\ cret.op = "GetDeviceInfoByPath"
    /\ cret.path = "/dev/a"
    /\ ~NodeAt(cret.path).exists
    /\ Mentions(cret.err, "/dev/a")

\* unix.Mkdev: the device number a major/minor pair stands for.
Mkdev(major, minor) ==
    BitOr(BitOr(Shl(BitAnd(major, 0..11), 8), Shl(BitAnd(major, 12..31), 32)),
          BitOr(Shl(BitAnd(minor, 0..7), 0), Shl(BitAnd(minor, 8..31), 12)))

\* C9: a descriptor returned by DeviceFromPath for path p carries p (not
\* empty) as containerPath, the node's mode without any type bit as
\* fileMode, the major/minor pair that makes up the node's device number,
\* both non-negative as 64-bit signed numbers, and the node's uid and gid.
C9_DescriptorFields ==
    (cret.op = "DeviceFromPath" /\ cret.err = NoErr) =>
        /\ Len(cret.dev) = 1
        /\ cret.dev[1].ContainerPath = cret.path
        /\ cret.path # ""
        /\ cret.dev[1].FileMode = Bits(NodeAt(cret.path).perm)
        /\ BitAnd(cret.dev[1].FileMode, 12..15) = {}
        /\ Mkdev(cret.dev[1].Major, cret.dev[1].Minor) = NodeAt(cret.path).rdev
        /\ 63 \notin cret.dev[1].Major
        /\ 63 \notin cret.dev[1].Minor
        /\ cret.dev[1].UID = NodeAt(cret.path).uid
        /\ cret.dev[1].GID = NodeAt(cret.path).gid

\* A block node whose device number has bit 63 set was classified.
C9_Witness ==
    /\ cret.op = "DeviceFromPath"
    /\ cret.err = NoErr
    /\ 63 \in NodeAt(cret.path).rdev
    /\ cret.dev[1].DevType = "b"

(***************************************************************************)
(* Properties of the sandbox device client                                 *)
(***************************************************************************)

\* The requests invocation i has issued.
RequestsOf(i) == SelectSeq(net, LAMBDA r : r.inv = i)

\* C1: list, attach and detach issue a request only for an identifier that
\* VerifyContainerID accepted earlier in the same invocation; when the
\* identifier given fails validation (the empty one included) the
\* invocation returns the validation error and issues no request.
C1_ValidationBeforeRemoteCall ==
    \A i \in Procs :
        /\ \A k \in 1..Len(RequestsOf(i)) :
              /\ WellFormedId(RequestsOf(i)[k].sid)
              /\ \E j \in 1..Len(verified[i]) : verified[i][j] = RequestsOf(i)[k].sid
        /\ (args[i].sid.set /\ ~WellFormedId(args[i].sid.val)) =>
              /\ RequestsOf(i) = <<>>
              /\ pc[i] \notin {"marshal", "call"}
              /\ pc[i] = "done" => ret[i] = (IF args[i].sid.val = <<>> THEN ErrBlankID ELSE ErrInvalidID)

\* An invocation given the empty identifier has returned.
C1_Witness ==
    /\ pc[1] = "done"
    /\ args[1].sid = Flag(<<>>)
    /\ ret[1] = ErrBlankID
    /\ net = <<>>

\* C3: an invocation with a valid identifier issues exactly one request, to
\* the device endpoint of that sandbox, as its last step; it succeeds
\* exactly when that request ended with 200, and otherwise returns what the
\* transport reported (500 and a timeout alike), with nothing tried again.
C3_OneRemoteCallDecidesResult ==
    \A i \in Procs :
        /\ Len(RequestsOf(i)) <= 1
        /\ pc[i] # "done" => RequestsOf(i) = <<>>
        /\ (pc[i] = "done" /\ args[i].sid.set /\ WellFormedId(args[i].sid.val)) =>
              /\ Len(RequestsOf(i)) = 1
              /\ RequestsOf(i)[1].url = DeviceUrl
              /\ RequestsOf(i)[1].sid = args[i].sid.val
              /\ (ret[i] = NoErr) <=> (RequestsOf(i)[1].outcome = "200")
              /\ RequestsOf(i)[1].outcome # "200" =>
                    ret[i] = [kind |-> "RemoteCallFailure", detail |-> RequestsOf(i)[1].outcome]

\* An attach timed out and returned the failure after its one request.
C3_Witness ==
    /\ pc[1] = "done"
    /\ args[1].cmd = "attach"
    /\ Len(net) = 1
    /\ net[1].outcome = "timeout"
    /\ ret[1] = [kind |-> "RemoteCallFailure", detail |-> "timeout"]

HexVal(c) == IF c >= 97 THEN c - 87 ELSE c - 48

\* The string a JSON string body stands for; ok is FALSE when the bytes are
\* no JSON string body.
RECURSIVE JsonUnquote(_)
JsonUnquote(b) ==
    IF b = <<>> THEN [ok |-> TRUE, str |-> <<>>]
    ELSE IF Head(b) = 34 \/ Head(b) < 32 THEN [ok |-> FALSE, str |-> <<>>]
    ELSE IF Head(b) # 92
    THEN [ok |-> JsonUnquote(Tail(b)).ok, str |-> <<Head(b)>> \o JsonUnquote(Tail(b)).str]
    ELSE IF Len(b) >= 6 /\ b[2] = 117
    THEN [ok |-> JsonUnquote(SubSeq(b, 7, Len(b))).ok,
          str |-> <<4096 * HexVal(b[3]) + 256 * HexVal(b[4]) + 16 * HexVal(b[5]) + HexVal(b[6])>>
                  \o JsonUnquote(SubSeq(b, 7, Len(b))).str]
    ELSE IF Len(b) >= 2 /\ b[2] \in {34, 92, 110, 114, 116}
    THEN [ok |-> JsonUnquote(SubSeq(b, 3, Len(b))).ok,
          str |-> << CASE b[2] = 110 -> 10 [] b[2] = 114 -> 13 [] b[2] = 116 -> 9 [] OTHER -> b[2] >>
                  \o JsonUnquote(SubSeq(b, 3, Len(b))).str]
    ELSE [ok |-> FALSE, str |-> <<>>]

\* The bytes are the JSON object {"device_path": p}.
IsDevicePathObject(b, p) ==
    /\ Len(b) >= Len(JsonObjectOpen) + Len(JsonObjectClose)
    /\ SubSeq(b, 1, Len(JsonObjectOpen)) = JsonObjectOpen
    /\ SubSeq(b, Len(b) - Len(JsonObjectClose) + 1, Len(b)) = JsonObjectClose
    /\ JsonUnquote(SubSeq(b, Len(JsonObjectOpen) + 1, Len(b) - Len(JsonObjectClose))) =
          [ok |-> TRUE, str |-> p]

\* A request without what tells attach from detach, and without the
\* bookkeeping of the run.
Stripped(r) == [sid |-> r.sid, url |-> r.url, timeout |-> r.timeout, hasBody |-> r.hasBody,
                ctype |-> r.ctype, body |-> r.body]

\* C4: attach issues a PUT and detach a DELETE to the device endpoint of
\* the sandbox given; apart from the verb the request depends only on the
\* identifier and the device path: it carries the JSON object
\* {"device_path": p} as application/json, with ten times the timeout of
\* the GET that list issues; list sends no body.
C4_AttachDetachDifferOnlyInVerb ==
    \A k \in 1..Len(net) :
        LET r == net[k]
            a == args[r.inv]
        IN /\ r.url = DeviceUrl
           /\ r.sid = a.sid.val
           /\ r.verb = (CASE a.cmd = "list" -> "GET" [] a.cmd = "attach" -> "PUT" [] OTHER -> "DELETE")
           /\ a.cmd = "list" =>
                 /\ ~r.hasBody
                 /\ r.timeout = defaultTimeout
           /\ a.cmd \in {"attach", "detach"} =>
                 /\ r.hasBody
                 /\ r.ctype = "application/json"
                 /\ IsDevicePathObject(r.body, a.dev.val)
                 /\ r.timeout = 10 * defaultTimeout
                 /\ Stripped(r) = Stripped(DoPut(r.inv, a.sid.val, 10 * defaultTimeout, DeviceUrl,
                                                 "application/json",
                                                 Marshal(DeviceRequest(a.dev.val)).bytes,
                                                 r.outcome).reqs[1])

\* A detach of a device path with characters that JSON escapes went out.
C4_Witness ==
    /\ Len(net) = 1
    /\ args[1].cmd = "detach"
    /\ args[1].dev = Flag(<<47, 34, 92>>)
    /\ net[1].verb = "DELETE"

\* C10 as stated: attach and detach need a device path: an invocation that
\* was given none is rejected and issues no PUT or DELETE; list needs only
\* the identifier.
C10_DevicePathRequired ==
    \A i \in Procs :
        (args[i].cmd \in {"attach", "detach"} /\ ~args[i].dev.set) =>
            /\ \A k \in 1..Len(RequestsOf(i)) : RequestsOf(i)[k].verb \notin {"PUT", "DELETE"}
            /\ pc[i] = "done" => ret[i] # NoErr

\* C8 as stated: when two invocations overlap, every request goes to the
\* sandbox and carries the device path given to the invocation that issues
\* it, never those given to the other.
C8_RequestsCarryOwnArguments ==
    \A k \in 1..Len(net) :
        /\ net[k].sid = args[net[k].inv].sid.val
        /\ net[k].hasBody => IsDevicePathObject(net[k].body, args[net[k].inv].dev.val)

====
